---- MODULE Spec2Model ----
(***************************************************************************)
(* A model of ClaudeAssistant.py: the directory-tree renderer, the         *)
(* structured-asset reader, the metadata collectors and the report writer. *)
(* Text is modelled as sequences of one-character strings, so that prefix, *)
(* suffix, ordering and truncation are computed character by character.    *)
(***************************************************************************)
EXTENDS Integers, Sequences, FiniteSets, TLC

VARIABLES
    fs,         \* the file system: path |-> [kind, content]; DOMAIN fs = the entries that exist
    exclude,    \* generate_tree: the exclusion set of the call
    tree,       \* generate_tree: what the call produced
    treePc,     \* generate_tree: "start", "returned" or "raised"
    file,       \* read_asset_file: the file of the call, [readable, content]
    readResult, \* read_asset_file: what the call produced
    readPc,     \* read_asset_file: "start", "returned" or "raised"
    counts,     \* count_assets: the mapping the call returned
    countPc,    \* count_assets: "start" or "returned"
    gitEnv,     \* how the two git commands end in this environment
    now,        \* the local clock, in ticks
    pc,         \* main: the step it is at, "done", "crashed" or "idle"
    results,    \* main: what each collector returned so far
    error,      \* main: the step that raised and the exception, once crashed
    reports,    \* the report files on disk: name |-> document
    written     \* ghost: the report each finished run wrote, in order

treeVars == <<fs, exclude, tree, treePc>>

readVars == <<file, readResult, readPc>>

countVars == <<counts, countPc>>

mainVars == <<gitEnv, now, pc, results, error, reports, written>>

vars == <<fs, exclude, tree, treePc, file, readResult, readPc, counts, countPc,
          gitEnv, now, pc, results, error, reports, written>>

(***************************************************************************)
(* Bounds of the model.                                                    *)
(***************************************************************************)
MaxEntries == 5     \* entries created below the root of a rendered tree
MaxAssets == 4      \* entries created below the root of a counted project
MaxDepth == 3       \* directory levels below the root
MaxItems == 201     \* items of a list in a structured file
MaxGarbage == 1001  \* characters after the bracket of an unparsable file
MaxRuns == 2        \* runs of main in one working directory
MaxTicks == 3       \* ticks of the clock

(***************************************************************************)
(* Text helpers.                                                           *)
(***************************************************************************)
\* The characters of the names the model sorts, in code-point order.
Alphabet == <<"-", ".", "0", "1", "2", "3", "4", "5", "6", "7", "8", "9",
              "A", "B", "C", "D", "E", "F", "G", "H", "I", "J", "K", "L", "M",
              "N", "O", "P", "Q", "R", "S", "T", "U", "V", "W", "X", "Y", "Z", "_",
              "a", "b", "c", "d", "e", "f", "g", "h", "i", "j", "k", "l", "m",
              "n", "o", "p", "q", "r", "s", "t", "u", "v", "w", "x", "y", "z">>

Ord(c) == CHOOSE i \in 1..Len(Alphabet) : Alphabet[i] = c

Min(a, b) == IF a <= b THEN a ELSE b

\* str.startswith
StartsWith(s, p) == Len(p) <= Len(s) /\ SubSeq(s, 1, Len(p)) = p

\* str.endswith
EndsWith(s, p) == Len(p) <= Len(s) /\ SubSeq(s, Len(s) - Len(p) + 1, Len(s)) = p

\* Python's str ordering: the first differing code point decides, a proper prefix is smaller.
StrLess(s, t) ==
    \E i \in 1..(Min(Len(s), Len(t)) + 1) :
        /\ \A j \in 1..(i - 1) : s[j] = t[j]
        /\ \/ i = Len(s) + 1 /\ i <= Len(t)
           \/ i <= Len(s) /\ i <= Len(t) /\ Ord(s[i]) < Ord(t[i])

RECURSIVE SeqOfSet(_)
\* os.listdir returns the names in an arbitrary order
SeqOfSet(S) ==
    IF S = {} THEN <<>>
    ELSE LET x == CHOOSE y \in S : TRUE IN <<x>> \o SeqOfSet(S \ {x})

RECURSIVE Insert(_, _)
Insert(x, s) ==
    IF s = <<>> THEN <<x>>
    ELSE IF StrLess(x, Head(s)) THEN <<x>> \o s
    ELSE <<Head(s)>> \o Insert(x, Tail(s))

\* the listing taken in the opposite order
sorted_reverse(s) == IF s = <<>> THEN <<>> ELSE [i \in 1..Len(s) |-> s[Len(s) + 1 - i]]

RECURSIVE sorted(_)
\* sorted() of a list of strings
sorted(s) == IF s = <<>> THEN <<>> ELSE Insert(Head(s), sorted(Tail(s)))

RECURSIVE Join(_)
\* "\n".join(lines)
Join(texts) ==
    IF texts = <<>> THEN <<>>
    ELSE IF Len(texts) = 1 THEN texts[1]
    ELSE texts[1] \o <<"\n">> \o Join(Tail(texts))

(***************************************************************************)
(* The file system.                                                        *)
(***************************************************************************)
NoContent == <<>>

Entry(kind, content) == [kind |-> kind, content |-> content]

exists(fsys, path) == path \in DOMAIN fsys

\* os.path.isdir: a directory, listable or not
isdir(fsys, path) == exists(fsys, path) /\ fsys[path].kind \in {"dir", "denied"}

\* os.path.isfile
isfile(fsys, path) == exists(fsys, path) /\ fsys[path].kind = "file"

\* os.path.basename
basename(path) == path[Len(path)]

Parent(path) == SubSeq(path, 1, Len(path) - 1)

\* os.listdir of a listable directory
listdir(fsys, path) ==
    SeqOfSet({basename(p) : p \in {q \in DOMAIN fsys : Len(q) = Len(path) + 1 /\ Parent(q) = path}})

\* os.listdir's outcome: "ok", PermissionError, or another OSError (missing, not a directory)
listdirOutcome(fsys, path) ==
    IF ~exists(fsys, path) THEN "FileNotFoundError"
    ELSE IF fsys[path].kind = "denied" THEN "PermissionError"
    ELSE IF fsys[path].kind = "file" THEN "NotADirectoryError"
    ELSE "ok"

WithEntry(fsys, path, e) ==
    [p \in DOMAIN fsys \cup {path} |-> IF p = path THEN e ELSE fsys[p]]

(***************************************************************************)
(* generate_tree.  A line carries the text the code appends and, as a      *)
(* ghost, the entry that produced it.                                      *)
(***************************************************************************)
\* ("??? " if is_last else "??? "): the two literals of lines 35 and 41 as they stand
\* in the source.  next_prefix (line 36) is assigned and never used.
Connector(is_last) == IF is_last THEN <<"?", "?", "?", " ">> ELSE <<"?", "?", "?", " ">>

DeniedMarker == <<"?", "?", "?", " ", "<", "P", "e", "r", "m", "i", "s", "s", "i", "o", "n", " ",
                  "D", "e", "n", "i", "e", "d", ">">>

Line(text, path, kind) == [text |-> text, path |-> path, kind |-> kind]

\* the exclusion test comparing whole names instead of prefixes
should_include_exact(name, excl) == ~ \E ex \in excl : name = ex

\* not any(name.startswith(ex) for ex in exclude)
should_include(name, excl) == ~ \E ex \in excl : StartsWith(name, ex)

\* a handler that matches no listing failure
CaughtNothing(outcome) == FALSE

\* except PermissionError: the only listing failure add_directory handles
Caught(outcome) == outcome = "PermissionError"

RECURSIVE add_directory(_, _, _, _), add_dirs(_, _, _, _, _, _, _)

\* the loop over dirs, from index i: each child directory with its subtree
add_dirs(fsys, excl, path, prefix, dirs, files, i) ==
    IF i > Len(dirs) THEN [lines |-> <<>>, raised |-> FALSE]
    ELSE LET is_last == (i = Len(dirs) /\ Len(files) = 0)
             new_prefix == prefix \o Connector(is_last)
             sub == add_directory(fsys, excl, path \o <<dirs[i]>>, new_prefix)
         IN  IF sub.raised THEN sub
             ELSE LET rest == add_dirs(fsys, excl, path, prefix, dirs, files, i + 1)
                  IN  [lines |-> sub.lines \o rest.lines, raised |-> rest.raised]

add_directory(fsys, excl, path, prefix) ==
    LET dir_name == basename(path)
        own == <<Line(prefix \o dir_name \o <<"/">>, path, "dir")>>
    IN  IF ~should_include(dir_name, excl) THEN [lines |-> <<>>, raised |-> FALSE]
        ELSE IF Caught(listdirOutcome(fsys, path))
        THEN [lines |-> own \o <<Line(prefix \o DeniedMarker, path, "marker")>>, raised |-> FALSE]
        ELSE IF listdirOutcome(fsys, path) # "ok"
        THEN [lines |-> own, raised |-> TRUE]
        ELSE LET items == sorted(listdir(fsys, path))
                 IsDir(item) == isdir(fsys, path \o <<item>>) /\ should_include(item, excl)
                 IsFile(item) == isfile(fsys, path \o <<item>>) /\ should_include(item, excl)
                 dirs == SelectSeq(items, IsDir)
                 files == SelectSeq(items, IsFile)
                 sub == add_dirs(fsys, excl, path, prefix, dirs, files, 1)
                 fileLines == [i \in 1..Len(files) |->
                                  Line(prefix \o Connector(i = Len(files)) \o files[i],
                                       path \o <<files[i]>>, "file")]
             IN  IF sub.raised THEN [lines |-> own \o sub.lines, raised |-> TRUE]
                 ELSE [lines |-> own \o sub.lines \o fileLines, raised |-> FALSE]

\* generate_tree(root_dir, exclude): the lines, the returned text, and whether it raised
generate_tree(fsys, root, excl) ==
    LET r == add_directory(fsys, excl, root, <<>>)
    IN  [lines |-> r.lines,
         text |-> Join([i \in 1..Len(r.lines) |-> r.lines[i].text]),
         raised |-> r.raised]

(***************************************************************************)
(* read_asset_file.  The two parsers are modelled on the families of       *)
(* content below: what each accepts, the value it builds, and what         *)
(* json.dumps makes of that value.                                         *)
(***************************************************************************)
MaxPreview == 1000

Digits == <<"0", "1", "2", "3", "4", "5", "6", "7", "8", "9">>

IsDigit(c) == \E d \in 1..10 : Digits[d] = c

DigitValue(c) == (CHOOSE d \in 1..10 : Digits[d] = c) - 1

\* unit repeated n times
Rep(unit, n) == [i \in 1..(n * Len(unit)) |-> unit[((i - 1) % Len(unit)) + 1]]

\* a YAML block sequence of n items: "- 1\n" n times (empty text for n = 0)
BlockSeq(n) == Rep(<<"-", " ", "1", "\n">>, n)

\* a JSON array of n >= 1 items indented with tabs: "[\n\t1,\n\t1\n]"
TabJson(n) == <<"[", "\n", "\t", "1">> \o Rep(<<",", "\n", "\t", "1">>, n - 1) \o <<"\n", "]">>

\* a JSON array on one line, also a YAML flow sequence: "[1, 1]"
FlowJson(n) ==
    IF n = 0 THEN <<"[", "]">>
    ELSE <<"[", "1">> \o Rep(<<",", " ", "1">>, n - 1) \o <<"]">>

\* an unclosed bracket followed by n characters: neither YAML nor JSON
Garbage(n) == <<"[">> \o Rep(<<"x">>, n)

\* a bare ISO date, which YAML reads as a date
DateText == <<"2", "0", "2", "4", "-", "0", "1", "-", "0", "1">>

Null == [type |-> "null"]
IntVal(k) == [type |-> "int", v |-> k]
ListVal(items) == [type |-> "list", items |-> items]
DateVal(text) == [type |-> "date", text |-> text]

Parsed(v) == [ok |-> TRUE, value |-> v]
ParseError == [ok |-> FALSE, value |-> Null]

IsBlockSeq(c) ==
    /\ Len(c) > 0 /\ Len(c) % 4 = 0
    /\ \A i \in 1..(Len(c) \div 4) :
         /\ c[4 * i - 3] = "-" /\ c[4 * i - 2] = " "
         /\ IsDigit(c[4 * i - 1]) /\ c[4 * i] = "\n"

IsFlowJson(c) ==
    \/ c = <<"[", "]">>
    \/ /\ Len(c) >= 3 /\ Len(c) % 3 = 0
       /\ c[1] = "[" /\ IsDigit(c[2]) /\ c[Len(c)] = "]"
       /\ \A i \in 1..((Len(c) \div 3) - 1) :
            c[3 * i] = "," /\ c[3 * i + 1] = " " /\ IsDigit(c[3 * i + 2])

IsTabJson(c) ==
    /\ Len(c) >= 6 /\ Len(c) % 4 = 2
    /\ SubSeq(c, 1, 4) = <<"[", "\n", "\t", c[4]>> /\ IsDigit(c[4])
    /\ SubSeq(c, Len(c) - 1, Len(c)) = <<"\n", "]">>
    /\ \A i \in 1..((Len(c) - 6) \div 4) :
         /\ c[4 * i + 1] = "," /\ c[4 * i + 2] = "\n"
         /\ c[4 * i + 3] = "\t" /\ IsDigit(c[4 * i + 4])

IsDate(c) ==
    /\ Len(c) = 10 /\ c[5] = "-" /\ c[8] = "-"
    /\ \A i \in {1, 2, 3, 4, 6, 7, 9, 10} : IsDigit(c[i])

\* yaml.safe_load: an empty document is None, a block or flow sequence a list, a bare
\* date a date; a tab where a token should start and an unclosed bracket are YAMLErrors
yaml_safe_load(c) ==
    IF c = <<>> THEN Parsed(Null)
    ELSE IF IsBlockSeq(c)
    THEN Parsed(ListVal([i \in 1..(Len(c) \div 4) |-> IntVal(DigitValue(c[4 * i - 1]))]))
    ELSE IF IsFlowJson(c)
    THEN Parsed(ListVal([i \in 1..(Len(c) \div 3) |-> IntVal(DigitValue(c[3 * i - 1]))]))
    ELSE IF IsDate(c) THEN Parsed(DateVal(c))
    ELSE ParseError

\* json.loads: an array of numbers with any JSON whitespace; all else is a JSONDecodeError
json_loads(c) ==
    IF IsFlowJson(c)
    THEN Parsed(ListVal([i \in 1..(Len(c) \div 3) |-> IntVal(DigitValue(c[3 * i - 1]))]))
    ELSE IF IsTabJson(c)
    THEN Parsed(ListVal([i \in 1..((Len(c) - 2) \div 4) |-> IntVal(DigitValue(c[4 * i]))]))
    ELSE ParseError

\* whether json.dumps can serialize the value (a date raises TypeError)
Serializable(v) ==
    CASE v.type = "list" -> \A i \in 1..Len(v.items) : v.items[i].type \in {"null", "int"}
      [] v.type = "date" -> FALSE
      [] OTHER -> TRUE

DumpScalar(v) == IF v.type = "null" THEN <<"n", "u", "l", "l">> ELSE <<Digits[v.v + 1]>>

\* json.dumps(value, indent=2) of a serializable value
json_dumps(v) ==
    IF v.type # "list" THEN DumpScalar(v)
    ELSE IF v.items = <<>> THEN <<"[", "]">>
    ELSE LET n == Len(v.items)
             \* item i takes 5 characters: two spaces, the digit, then ",\n" or "\n]"
             body == [k \in 1..(5 * n) |->
                        LET i == ((k - 1) \div 5) + 1
                            j == ((k - 1) % 5) + 1
                        IN  CASE j \in {1, 2} -> " "
                              [] j = 3 -> DumpScalar(v.items[i])[1]
                              [] j = 4 -> IF i = n THEN "\n" ELSE ","
                              [] j = 5 -> IF i = n THEN "]" ELSE "\n"]
         IN  <<"[", "\n">> \o body

\* the slice taken one character too long
TakeOneMore(s, n) == SubSeq(s, 1, Min(Len(s), n + 1))

\* s[:n]
Take(s, n) == SubSeq(s, 1, Min(Len(s), n))

Returned(text, tried) == [raised |-> "", text |-> text, tried |-> tried]
Raised(err, tried) == [raised |-> err, text |-> <<>>, tried |-> tried]

\* a file as open() and read() find it
File(readable, content) == [readable |-> readable, content |-> content]

\* read_asset_file(file_path); tried is a ghost: the attempts made, in order
read_asset_file(f) ==
    IF ~f.readable THEN Raised("OSError", <<>>)
    ELSE LET content == f.content
             y == yaml_safe_load(content)
             j == json_loads(content)
         IN  IF y.ok
             THEN IF Serializable(y.value)
                  THEN Returned(Take(json_dumps(y.value), MaxPreview), <<"yaml">>)
                  ELSE Raised("TypeError", <<"yaml">>)
             ELSE IF j.ok
             THEN Returned(Take(json_dumps(j.value), MaxPreview), <<"yaml", "json">>)
             ELSE Returned(Take(content, MaxPreview), <<"yaml", "json", "raw">>)

(***************************************************************************)
(* count_assets.                                                           *)
(***************************************************************************)
Categories == {"Scenes", "Prefabs", "Materials", "Textures", "Scripts"}

NoCounts == [c \in Categories |-> 0]

AssetsName == <<"A", "s", "s", "e", "t", "s">>

dot_unity == <<".", "u", "n", "i", "t", "y">>
dot_prefab == <<".", "p", "r", "e", "f", "a", "b">>
dot_mat == <<".", "m", "a", "t">>
dot_png == <<".", "p", "n", "g">>
dot_jpg == <<".", "j", "p", "g">>
dot_jpeg == <<".", "j", "p", "e", "g">>
dot_tga == <<".", "t", "g", "a">>
dot_cs == <<".", "c", "s">>

\* the if/elif chain with the script suffix tested without its dot
category_no_dot(name) ==
    IF EndsWith(name, dot_unity) THEN "Scenes"
    ELSE IF EndsWith(name, dot_prefab) THEN "Prefabs"
    ELSE IF EndsWith(name, dot_mat) THEN "Materials"
    ELSE IF \E suf \in {dot_png, dot_jpg, dot_jpeg, dot_tga} : EndsWith(name, suf) THEN "Textures"
    ELSE IF EndsWith(name, Tail(dot_cs)) THEN "Scripts"
    ELSE ""

\* the if/elif chain of the inner loop: the category a file adds to, "" for none
category(name) ==
    IF EndsWith(name, dot_unity) THEN "Scenes"
    ELSE IF EndsWith(name, dot_prefab) THEN "Prefabs"
    ELSE IF EndsWith(name, dot_mat) THEN "Materials"
    ELSE IF \E suf \in {dot_png, dot_jpg, dot_jpeg, dot_tga} : EndsWith(name, suf) THEN "Textures"
    ELSE IF EndsWith(name, dot_cs) THEN "Scripts"
    ELSE ""

RECURSIVE count_files(_, _)
\* for file in files: ...
count_files(asset_counts, files) ==
    IF files = <<>> THEN asset_counts
    ELSE LET c == category(Head(files))
             next == IF c = "" THEN asset_counts
                     ELSE [asset_counts EXCEPT ![c] = asset_counts[c] + 1]
         IN  count_files(next, Tail(files))

RECURSIVE walk(_, _, _), walk_dirs(_, _, _, _, _)

walk_dirs(fsys, top, dirs, i, asset_counts) ==
    IF i > Len(dirs) THEN asset_counts
    ELSE walk_dirs(fsys, top, dirs, i + 1, walk(fsys, top \o <<dirs[i]>>, asset_counts))

\* os.walk(top), the loop body applied to each (root, dirs, files) it yields: a
\* directory that cannot be listed (missing, not a directory, no permission) yields nothing
walk(fsys, top, asset_counts) ==
    IF listdirOutcome(fsys, top) # "ok" THEN asset_counts
    ELSE LET items == listdir(fsys, top)
             IsDir(item) == isdir(fsys, top \o <<item>>)
             NotDir(item) == ~isdir(fsys, top \o <<item>>)
         IN  walk_dirs(fsys, top, SelectSeq(items, IsDir), 1,
                       count_files(asset_counts, SelectSeq(items, NotDir)))

count_assets(fsys, project_path) == walk(fsys, project_path \o <<AssetsName>>, NoCounts)

(***************************************************************************)
(* The metadata collectors.  Each returns [raised, val]: raised is "" when *)
(* it returned val, else the exception that left it.                       *)
(***************************************************************************)
ProjectRoot == <<<<"p">>>>

ProjectSettingsDir == ProjectRoot \o <<<<"P", "r", "o", "j", "e", "c", "t", "S", "e", "t", "t", "i", "n", "g", "s">>>>
build_settings_path == ProjectSettingsDir \o <<<<"E", "d", "i", "t", "o", "r", "B", "u", "i", "l", "d", "S", "e", "t", "t", "i", "n", "g", "s", ".", "a", "s", "s", "e", "t">>>>
packages_lock_path == ProjectRoot \o <<<<"P", "a", "c", "k", "a", "g", "e", "s">>, <<"p", "a", "c", "k", "a", "g", "e", "s", "-", "l", "o", "c", "k", ".", "j", "s", "o", "n">>>>
project_settings_path == ProjectSettingsDir \o <<<<"P", "r", "o", "j", "e", "c", "t", "S", "e", "t", "t", "i", "n", "g", "s", ".", "a", "s", "s", "e", "t">>>>
quality_settings_path == ProjectSettingsDir \o <<<<"Q", "u", "a", "l", "i", "t", "y", "S", "e", "t", "t", "i", "n", "g", "s", ".", "a", "s", "s", "e", "t">>>>
scenes_path == ProjectRoot \o <<AssetsName, <<"S", "c", "e", "n", "e", "s">>>>
version_file == ProjectSettingsDir \o <<<<"P", "r", "o", "j", "e", "c", "t", "V", "e", "r", "s", "i", "o", "n", ".", "t", "x", "t">>>>

BuildNotFound == <<"B", "u", "i", "l", "d", " ", "s", "e", "t", "t", "i", "n", "g", "s", " ", "f", "i", "l", "e", " ", "n", "o", "t", " ", "f", "o", "u", "n", "d">>
PackagesNotFound == <<"P", "a", "c", "k", "a", "g", "e", " ", "l", "o", "c", "k", " ", "f", "i", "l", "e", " ", "n", "o", "t", " ", "f", "o", "u", "n", "d">>
ProjectNotFound == <<"P", "r", "o", "j", "e", "c", "t", " ", "s", "e", "t", "t", "i", "n", "g", "s", " ", "f", "i", "l", "e", " ", "n", "o", "t", " ", "f", "o", "u", "n", "d">>
QualityNotFound == <<"Q", "u", "a", "l", "i", "t", "y", " ", "s", "e", "t", "t", "i", "n", "g", "s", " ", "f", "i", "l", "e", " ", "n", "o", "t", " ", "f", "o", "u", "n", "d">>
VersionNotFound == <<"U", "n", "i", "t", "y", " ", "v", "e", "r", "s", "i", "o", "n", " ", "i", "n", "f", "o", "r", "m", "a", "t", "i", "o", "n", " ", "n", "o", "t", " ", "f", "o", "u", "n", "d">>
GitNotAvailable == <<"G", "i", "t", " ", "i", "n", "f", "o", "r", "m", "a", "t", "i", "o", "n", " ", "n", "o", "t", " ", "a", "v", "a", "i", "l", "a", "b", "l", "e">>

Ok(val) == [raised |-> "", val |-> val]
Raise(err) == [raised |-> err, val |-> <<>>]

\* if os.path.exists(path): return read_asset_file(path); return placeholder
read_if_exists(fsys, path, placeholder) ==
    IF exists(fsys, path)
    THEN LET r == read_asset_file(File(TRUE, fsys[path].content))
         IN  IF r.raised = "" THEN Ok(r.text) ELSE Raise(r.raised)
    ELSE Ok(placeholder)

get_build_settings(fsys) == read_if_exists(fsys, build_settings_path, BuildNotFound)

get_package_versions(fsys) ==
    IF exists(fsys, packages_lock_path)
    THEN LET data == json_loads(fsys[packages_lock_path].content)
         IN  IF data.ok THEN Ok(json_dumps(data.value)) ELSE Raise("JSONDecodeError")
    ELSE Ok(PackagesNotFound)

\* the project settings collector looking at the build settings path
get_project_settings_wrong_path(fsys) == read_if_exists(fsys, build_settings_path, ProjectNotFound)

get_project_settings(fsys) == read_if_exists(fsys, project_settings_path, ProjectNotFound)

get_quality_settings(fsys) == read_if_exists(fsys, quality_settings_path, QualityNotFound)

RECURSIVE read_scenes(_, _, _)
\* the loop over os.listdir(scenes_path): hierarchies, or the exception a read raised
read_scenes(fsys, names, hierarchies) ==
    IF names = <<>> THEN Ok(hierarchies)
    ELSE IF EndsWith(Head(names), dot_unity)
    THEN LET r == read_asset_file(File(TRUE, fsys[scenes_path \o <<Head(names)>>].content))
         IN  IF r.raised # "" THEN Raise(r.raised)
             ELSE read_scenes(fsys, Tail(names),
                              [n \in DOMAIN hierarchies \cup {Head(names)} |->
                                  IF n = Head(names) THEN r.text ELSE hierarchies[n]])
    ELSE read_scenes(fsys, Tail(names), hierarchies)

get_scene_hierarchies(fsys) ==
    IF exists(fsys, scenes_path)
    THEN IF listdirOutcome(fsys, scenes_path) = "ok"
         THEN read_scenes(fsys, listdir(fsys, scenes_path), <<>>)
         ELSE Raise(listdirOutcome(fsys, scenes_path))
    ELSE Ok(<<>>)

IsSpace(c) == c \in {" ", "\n", "\t"}

RECURSIVE strip(_)
\* str.strip()
strip(s) ==
    IF s = <<>> THEN s
    ELSE IF IsSpace(Head(s)) THEN strip(Tail(s))
    ELSE IF IsSpace(s[Len(s)]) THEN strip(SubSeq(s, 1, Len(s) - 1))
    ELSE s

get_unity_version(fsys) ==
    IF exists(fsys, version_file) THEN Ok(strip(fsys[version_file].content))
    ELSE Ok(VersionNotFound)

\* what the two git commands print when they succeed
BranchOutput == <<"m", "a", "i", "n", "\n">>
CommitOutput == <<"a", "1", "b", "2", "\n">>

\* subprocess.check_output: "ok", "nonzero" (CalledProcessError) or "oserror" (git
\* cannot be started: FileNotFoundError and the like)
GitOutcomes == {"ok", "nonzero", "oserror"}

\* get_git_info: only CalledProcessError is caught
get_git_info(git) ==
    LET failure == IF git[1] # "ok" THEN git[1] ELSE git[2]
    IN  IF failure = "ok"
        THEN Ok(<<"B", "r", "a", "n", "c", "h", ":", " ">> \o strip(BranchOutput)
                \o <<"\n", "L", "a", "s", "t", " ", "c", "o", "m", "m", "i", "t", ":", " ">> \o strip(CommitOutput))
        ELSE IF failure = "nonzero" THEN Ok(GitNotAvailable)
        ELSE Raise("FileNotFoundError")

(***************************************************************************)
(* main: the steps in order, then the report file.                         *)
(***************************************************************************)
MainExclude ==
    {<<".">>,
     <<".", ".">>,
     <<".", "g", "i", "t">>,
     <<".", "v", "s">>,
     <<".", "v", "s", "c", "o", "d", "e">>,
     <<"_", "_", "p", "y", "c", "a", "c", "h", "e", "_", "_">>,
     <<"n", "o", "d", "e", "_", "m", "o", "d", "u", "l", "e", "s">>,
     <<"b", "i", "n">>,
     <<"o", "b", "j">>,
     <<"b", "u", "i", "l", "d">>,
     <<"d", "i", "s", "t">>,
     <<"t", "a", "r", "g", "e", "t">>,
     <<"T", "e", "m", "p">>,
     <<"L", "i", "b", "r", "a", "r", "y">>,
     <<"L", "o", "g", "s">>,
     <<"U", "s", "e", "r", "S", "e", "t", "t", "i", "n", "g", "s">>}

Collectors == {"build", "packages", "project", "quality", "scenes", "version", "git", "counts"}

Steps == <<"tree", "build", "packages", "project", "quality", "scenes", "version", "git",
           "counts", "write">>

\* the call main makes at a step
Collect(step, fsys, git) ==
    CASE step = "tree" ->
           LET t == generate_tree(fsys, ProjectRoot, MainExclude)
           IN  IF t.raised THEN Raise(listdirOutcome(fsys, ProjectRoot)) ELSE Ok(t.text)
      [] step = "build" -> get_build_settings(fsys)
      [] step = "packages" -> get_package_versions(fsys)
      [] step = "project" -> get_project_settings(fsys)
      [] step = "quality" -> get_quality_settings(fsys)
      [] step = "scenes" -> get_scene_hierarchies(fsys)
      [] step = "version" -> get_unity_version(fsys)
      [] step = "git" -> get_git_info(git)
      [] step = "counts" -> Ok(count_assets(fsys, ProjectRoot))

Unset == [set |-> FALSE, val |-> <<>>]

NoResults == [s \in {"tree"} \cup Collectors |-> Unset]

NoError == [at |-> "", type |-> ""]

StepAfter(step) == Steps[(CHOOSE i \in 1..Len(Steps) : Steps[i] = step) + 1]

\* one assignment of main: the call returns and main goes on, or it raises and the
\* process ends
RunStep(step) ==
    /\ pc = step
    /\ LET r == Collect(step, fs, gitEnv)
       IN  IF r.raised = ""
           THEN /\ results' = [results EXCEPT ![step] = [set |-> TRUE, val |-> r.val]]
                /\ pc' = StepAfter(step)
                /\ error' = error
           ELSE /\ pc' = "crashed"
                /\ error' = [at |-> step, type |-> r.raised]
                /\ results' = results
    /\ UNCHANGED <<fs, exclude, tree, treePc, readVars, countVars, gitEnv, now, reports, written>>

GenerateTree == RunStep("tree")
GetBuildSettings == RunStep("build")
GetPackageVersions == RunStep("packages")
GetProjectSettings == RunStep("project")
GetQualitySettings == RunStep("quality")
GetSceneHierarchies == RunStep("scenes")
GetUnityVersion == RunStep("version")
GetGitInfo == RunStep("git")
CountAssets == RunStep("counts")

\* the clock's resolution: the ticks that fall in one second
TicksPerSecond == 2

\* the clock at the start of the model: 23:59:59 of day 0, in seconds
StartSecond == 24 * 3600 - 1

\* datetime.now().strftime("%Y%m%d_%H%M%S"): the day and the time to the second
strftime(t) ==
    LET sec == StartSecond + (t \div TicksPerSecond)
    IN  <<sec \div 86400, (sec \div 3600) % 24, (sec \div 60) % 60, sec % 60>>

\* f"project_structure_{timestamp}.txt"
ReportName(t) == [prefix |-> "project_structure_", timestamp |-> strftime(t), suffix |-> ".txt"]

\* the document: the sections in their fixed order
Document(res) ==
    <<[header |-> "Project Tree:", body |-> res["tree"].val],
      [header |-> "Build Settings:", body |-> res["build"].val],
      [header |-> "Package Versions:", body |-> res["packages"].val],
      [header |-> "Project Settings:", body |-> res["project"].val],
      [header |-> "Quality Settings:", body |-> res["quality"].val],
      [header |-> "Scene Hierarchies:", body |-> res["scenes"].val],
      [header |-> "Unity Version:", body |-> res["version"].val],
      [header |-> "Git Information:", body |-> res["git"].val],
      [header |-> "Asset Counts:", body |-> res["counts"].val]>>

\* open(filename, 'w') and write: the file is created, or truncated and rewritten
WriteFile(files, name, text) ==
    [n \in DOMAIN files \cup {name} |-> IF n = name THEN text ELSE files[n]]

WriteReport ==
    /\ pc = "write"
    /\ LET filename == ReportName(now)
           output == Document(results)
       IN  /\ reports' = WriteFile(reports, filename, output)
           /\ written' = Append(written, [name |-> filename, content |-> output])
    /\ pc' = "done"
    /\ UNCHANGED <<fs, exclude, tree, treePc, readVars, countVars, gitEnv, now, results, error>>

MainIdle ==
    /\ gitEnv = <<"ok", "ok">>
    /\ now = 0
    /\ pc = "idle"
    /\ results = NoResults
    /\ error = NoError
    /\ reports = <<>>
    /\ written = <<>>

(***************************************************************************)
(* The reader specification: read_asset_file is called once on some file.  *)
(***************************************************************************)
Contents ==
    {BlockSeq(n) : n \in 0..MaxItems} \cup {TabJson(n) : n \in 1..MaxItems}
    \cup {FlowJson(n) : n \in 0..MaxItems} \cup {Garbage(n) : n \in 0..MaxGarbage}
    \cup {DateText}

NoRead == Returned(<<>>, <<>>)

ReadIdle ==
    /\ file = File(TRUE, <<>>)
    /\ readResult = NoRead
    /\ readPc = "idle"

CountIdle ==
    /\ counts = NoCounts
    /\ countPc = "idle"

TreeIdle ==
    /\ fs = <<>>
    /\ exclude = {}
    /\ tree = [lines |-> <<>>, text |-> <<>>, raised |-> FALSE]
    /\ treePc = "idle"

ReadInit ==
    /\ file \in {File(TRUE, c) : c \in Contents} \cup {File(FALSE, <<>>)}
    /\ readResult = NoRead
    /\ readPc = "start"
    /\ TreeIdle
    /\ CountIdle
    /\ MainIdle

CallReadAssetFile ==
    /\ readPc = "start"
    /\ readResult' = read_asset_file(file)
    /\ readPc' = IF readResult'.raised = "" THEN "returned" ELSE "raised"
    /\ UNCHANGED <<file, treeVars, countVars, mainVars>>

ReadNext == CallReadAssetFile

SpecRead == ReadInit /\ [][ReadNext]_vars

\* C4: for a file that can be opened and read, whatever its content, read_asset_file
\* returns a string and raises nothing.
C4_ReadableNeverRaises ==
    (readPc \in {"returned", "raised"} /\ file.readable) => readPc = "returned"

IsPrefixOf(p, s) == Len(p) <= Len(s) /\ SubSeq(s, 1, Len(p)) = p

\* text is source cut to its first MaxPreview characters (all of it if shorter)
IsPreviewOf(text, source) ==
    /\ IsPrefixOf(text, source)
    /\ Len(text) = IF Len(source) > 1000 THEN 1000 ELSE Len(source)

\* C5: read_asset_file returns the result of the first attempt that succeeds: the YAML
\* value re-serialized, else (only after a YAML format error) the JSON value
\* re-serialized, else (only after both parsers failed) the raw content, each cut to
\* its first 1000 characters; a returned string is never longer than 1000.
C5_FirstSuccessfulAttempt ==
    (readPc \in {"returned", "raised"} /\ file.readable) =>
        LET c == file.content
            y == yaml_safe_load(c)
            j == json_loads(c)
        IN  /\ readPc = "returned" => Len(readResult.text) <= 1000
            /\ (y.ok /\ Serializable(y.value)) =>
                    /\ readPc = "returned"
                    /\ readResult.tried = <<"yaml">>
                    /\ IsPreviewOf(readResult.text, json_dumps(y.value))
            /\ (y.ok /\ ~Serializable(y.value)) => readResult.tried = <<"yaml">>
            /\ (~y.ok /\ j.ok) =>
                    /\ readPc = "returned"
                    /\ readResult.tried = <<"yaml", "json">>
                    /\ IsPreviewOf(readResult.text, json_dumps(j.value))
            /\ (~y.ok /\ ~j.ok) =>
                    /\ readPc = "returned"
                    /\ readResult.tried = <<"yaml", "json", "raw">>
                    /\ IsPreviewOf(readResult.text, c)

\* the second attempt succeeded after the first failed, with a result longer than the
\* limit
C5_Witness ==
    /\ readPc = "returned"
    /\ readResult.tried = <<"yaml", "json">>
    /\ Len(readResult.text) = 1000
    /\ Len(json_dumps(json_loads(file.content).value)) > 1000

(***************************************************************************)
(* The tree specification: the environment builds a directory tree, then   *)
(* generate_tree is called once with some exclusion set.                   *)
(***************************************************************************)
TreeRoot == <<<<"b", "a">>>>

TreeNames == {<<"a">>, <<"a", "b">>, <<"b">>, <<".", "a">>}

SubNames == {<<"a">>, <<"b">>}

DeepNames == {<<"a">>}

ExcludeStrings == {<<".">>, <<"a">>, <<"b">>}

Kinds == {"file", "dir", "denied"}

NoTree == [lines |-> <<>>, text |-> <<>>, raised |-> FALSE]

TreeInit ==
    /\ fs \in {<<>>} \cup {[p \in {TreeRoot} |-> Entry(k, NoContent)] : k \in {"dir", "denied"}}
    /\ exclude = {}
    /\ tree = NoTree
    /\ treePc = "start"
    /\ ReadIdle
    /\ CountIdle
    /\ MainIdle

\* the environment creates a file or a directory in an existing directory
CreateEntry(max, names1, names2, names3) ==
    /\ Cardinality(DOMAIN fs) <= max
    /\ \E parent \in DOMAIN fs, kind \in Kinds :
         /\ isdir(fs, parent)
         /\ Len(parent) <= MaxDepth
         /\ \E name \in (IF Len(parent) = 1 THEN names1
                         ELSE IF Len(parent) = 2 THEN names2 ELSE names3) :
              /\ ~exists(fs, parent \o <<name>>)
              /\ fs' = WithEntry(fs, parent \o <<name>>, Entry(kind, NoContent))

TreeCreate ==
    /\ treePc = "start"
    /\ CreateEntry(MaxEntries, TreeNames, SubNames, DeepNames)
    /\ UNCHANGED <<exclude, tree, treePc, readVars, countVars, mainVars>>

CallGenerateTree ==
    /\ treePc = "start"
    /\ \E excl \in SUBSET ExcludeStrings :
         LET r == generate_tree(fs, TreeRoot, excl)
         IN  /\ exclude' = excl
             /\ tree' = r
             /\ treePc' = IF r.raised THEN "raised" ELSE "returned"
    /\ UNCHANGED <<fs, readVars, countVars, mainVars>>

TreeNext == TreeCreate \/ CallGenerateTree

SpecTree == TreeInit /\ [][TreeNext]_vars

(***************************************************************************)
(* Properties of generate_tree.                                            *)
(***************************************************************************)
TreeDone == treePc \in {"returned", "raised"}

Lines == tree.lines

IsProperPrefix(p, q) == Len(p) < Len(q) /\ SubSeq(q, 1, Len(p)) = p

\* the indices of the lines of the direct children of directory d
ChildIdx(d) ==
    {i \in 1..Len(Lines) : Lines[i].kind \in {"dir", "file"} /\ Len(Lines[i].path) = Len(d) + 1
                            /\ Parent(Lines[i].path) = d}

Rendered(d) == \E i \in 1..Len(Lines) : Lines[i].kind = "dir" /\ Lines[i].path = d

\* C1: an entry whose base name starts with a string of the exclusion set produces no
\* line, and neither does any entry below an excluded directory: no line's path has an
\* excluded component (the root's name included).
C1_ExcludedNeverRendered ==
    TreeDone =>
        \A i \in 1..Len(Lines) : \A k \in 1..Len(Lines[i].path) :
            \A ex \in exclude : ~StartsWith(Lines[i].path[k], ex)

\* a directory with an entry in it is excluded by a prefix that is not its whole name,
\* below a root that is rendered
C1_Witness ==
    /\ treePc = "returned"
    /\ Len(Lines) > 0
    /\ \E p \in DOMAIN fs : /\ Len(p) = 3
                            /\ \E ex \in exclude : StartsWith(p[2], ex) /\ p[2] # ex
                            /\ \A ex \in exclude : ~StartsWith(p[3], ex)

\* C2: under every rendered directory the child directories (each followed at once by
\* its whole subtree) come before the child files, and each group is in ascending
\* lexicographic order of name.
C2_DirsFirstSorted ==
    TreeDone =>
        /\ \A i, j \in 1..Len(Lines) :
             (/\ i < j
              /\ Lines[i].kind \in {"dir", "file"} /\ Lines[j].kind \in {"dir", "file"}
              /\ Len(Lines[i].path) > 1 /\ Len(Lines[i].path) = Len(Lines[j].path)
              /\ Parent(Lines[i].path) = Parent(Lines[j].path))
             => /\ ~(Lines[i].kind = "file" /\ Lines[j].kind = "dir")
                /\ Lines[i].kind = Lines[j].kind
                     => StrLess(basename(Lines[i].path), basename(Lines[j].path))
        /\ \A i, k \in 1..Len(Lines) :
             (Lines[i].kind = "dir" /\ IsProperPrefix(Lines[i].path, Lines[k].path))
             => /\ i < k
                /\ \A m \in i..k : Lines[m].path = Lines[i].path
                                   \/ IsProperPrefix(Lines[i].path, Lines[m].path)

\* a directory rendered with two child directories, one of them not empty, and a file
C2_Witness ==
    /\ treePc = "returned"
    /\ \E d \in DOMAIN fs :
         /\ Cardinality({i \in ChildIdx(d) : Lines[i].kind = "dir"}) >= 2
         /\ \E i \in ChildIdx(d) : Lines[i].kind = "file"
         /\ \E i \in ChildIdx(d) : ChildIdx(Lines[i].path) # {}

\* the file system with directory d listable and empty
EmptiedAt(fsys, d) ==
    [p \in {q \in DOMAIN fsys : ~IsProperPrefix(d, q)} |->
        IF p = d THEN Entry("dir", fsys[p].content) ELSE fsys[p]]

\* the lines without the one at index i
Without(s, i) == SubSeq(s, 1, i - 1) \o SubSeq(s, i + 1, Len(s))

\* C3: when listing a rendered directory D raises a permission error, D's name line is
\* followed at once by the only marker line of D, nothing below D is rendered,
\* generate_tree returns, and every other line is what it would be with D listable and
\* empty.
C3_PermissionDeniedLocal ==
    TreeDone =>
        \A d \in DOMAIN fs :
            (fs[d].kind = "denied" /\ Rendered(d)) =>
                LET at == CHOOSE i \in 1..Len(Lines) : Lines[i].kind = "dir" /\ Lines[i].path = d
                    own == Lines[at].text
                    prefix == SubSeq(own, 1, Len(own) - Len(basename(d)) - 1)
                IN  /\ treePc = "returned"
                    /\ at < Len(Lines)
                    /\ Lines[at + 1] = Line(prefix \o DeniedMarker, d, "marker")
                    /\ Cardinality({i \in 1..Len(Lines) :
                                       Lines[i].kind = "marker" /\ Lines[i].path = d}) = 1
                    /\ \A i \in 1..Len(Lines) : ~IsProperPrefix(d, Lines[i].path)
                    /\ Without(Lines, at + 1) = generate_tree(EmptiedAt(fs, d), TreeRoot, exclude).lines

\* an unlistable directory with an entry in it, a sibling and a sibling of its parent,
\* all rendered
C3_Witness ==
    /\ treePc = "returned"
    /\ \E d \in DOMAIN fs :
         /\ fs[d].kind = "denied" /\ Rendered(d) /\ Len(d) = 3
         /\ exclude # {}
         /\ \E p \in DOMAIN fs : IsProperPrefix(d, p)
         /\ Cardinality(ChildIdx(Parent(d))) >= 2
         /\ Cardinality(ChildIdx(TreeRoot)) >= 2

\* a line's text before the entry's name: the indentation and the connector
BeforeName(l) ==
    SubSeq(l.text, 1, Len(l.text) - Len(basename(l.path)) - (IF l.kind = "dir" THEN 1 ELSE 0))

IsLastChild(i) == \A j \in ChildIdx(Parent(Lines[i].path)) : j <= i

\* C10: the line of the last child of a directory differs from the line of a non-last
\* child of the same directory in the text before the name.
C10_LastChildMarked ==
    TreeDone =>
        \A d \in DOMAIN fs : \A i, j \in ChildIdx(d) :
            (IsLastChild(i) /\ ~IsLastChild(j)) => BeforeName(Lines[i]) # BeforeName(Lines[j])

(***************************************************************************)
(* The counting specification: the environment builds a project directory, *)
(* then count_assets is called once.                                       *)
(***************************************************************************)
RootNames == {AssetsName, <<"c", ".", "c", "s">>}

AssetNames ==
    {<<"s", ".", "u", "n", "i", "t", "y">>,
     <<"p", ".", "p", "r", "e", "f", "a", "b">>,
     <<"m", ".", "m", "a", "t">>,
     <<"t", ".", "p", "n", "g">>,
     <<"t", ".", "j", "p", "g">>,
     <<"t", ".", "j", "p", "e", "g">>,
     <<"t", ".", "t", "g", "a">>,
     <<"c", ".", "c", "s">>,
     <<"C", ".", "C", "S">>,
     <<"n", ".", "t", "x", "t">>,
     <<"d", "o", "c", "s">>,
     <<"c", ".", "c", "s", ".", "m", "e", "t", "a">>}

SubAssetNames == {<<"c", ".", "c", "s">>, <<"s", ".", "u", "n", "i", "t", "y">>}

CountInit ==
    /\ fs = [p \in {ProjectRoot} |-> Entry("dir", NoContent)]
    /\ exclude = {}
    /\ tree = NoTree
    /\ treePc = "idle"
    /\ ReadIdle
    /\ counts = NoCounts
    /\ countPc = "start"
    /\ MainIdle

CountCreate ==
    /\ countPc = "start"
    /\ CreateEntry(MaxAssets, RootNames, AssetNames, SubAssetNames)
    /\ UNCHANGED <<exclude, tree, treePc, readVars, countVars, mainVars>>

CallCountAssets ==
    /\ countPc = "start"
    /\ counts' = count_assets(fs, ProjectRoot)
    /\ countPc' = "returned"
    /\ UNCHANGED <<treeVars, readVars, mainVars>>

CountNext == CountCreate \/ CallCountAssets

SpecCount == CountInit /\ [][CountNext]_vars

Suffixes ==
    [c \in Categories |->
        CASE c = "Scenes" -> {dot_unity}
          [] c = "Prefabs" -> {dot_prefab}
          [] c = "Materials" -> {dot_mat}
          [] c = "Textures" -> {dot_png, dot_jpg, dot_jpeg, dot_tga}
          [] c = "Scripts" -> {dot_cs}]

AssetsPath == ProjectRoot \o <<AssetsName>>

\* the files the walk finds: below Assets, every directory from Assets down listable
FoundFiles ==
    {p \in DOMAIN fs :
        /\ fs[p].kind = "file"
        /\ IsProperPrefix(AssetsPath, p)
        /\ \A k \in Len(AssetsPath)..(Len(p) - 1) :
             exists(fs, SubSeq(p, 1, k)) /\ fs[SubSeq(p, 1, k)].kind = "dir"}

Matching(c) == {p \in FoundFiles : \E suf \in Suffixes[c] : EndsWith(basename(p), suf)}

RECURSIVE SumOver(_, _)
SumOver(f, S) == IF S = {} THEN 0 ELSE LET x == CHOOSE y \in S : TRUE IN f[x] + SumOver(f, S \ {x})

\* C6: count_assets returns exactly the five categories; each count is the number of
\* files found under Assets whose name ends (case-sensitively) with a suffix of the
\* category, the five counts sum to the number of files with any listed suffix, and
\* all are 0 when Assets is absent.
C6_AssetCounts ==
    countPc = "returned" =>
        /\ DOMAIN counts = Categories
        /\ \A c \in Categories : counts[c] = Cardinality(Matching(c))
        /\ SumOver(counts, Categories) = Cardinality(UNION {Matching(c) : c \in Categories})
        /\ ~exists(fs, AssetsPath) => \A c \in Categories : counts[c] = 0

\* a counted script beside a name ending in "cs" without the dot and an upper-case
\* suffix
C6_Witness ==
    /\ countPc = "returned"
    /\ counts["Scripts"] = 1
    /\ \E p \in FoundFiles : basename(p) = <<"d", "o", "c", "s">>
    /\ \E p \in FoundFiles : basename(p) = <<"C", ".", "C", "S">>

(***************************************************************************)
(* The main specification: one run of main over some project directory.    *)
(***************************************************************************)
Absent == [present |-> FALSE, content |-> <<>>]
Present(c) == [present |-> TRUE, content |-> c]

FixedPaths ==
    [build |-> build_settings_path, packages |-> packages_lock_path,
     project |-> project_settings_path, quality |-> quality_settings_path,
     version |-> version_file]

Placeholder ==
    [build |-> BuildNotFound, packages |-> PackagesNotFound, project |-> ProjectNotFound,
     quality |-> QualityNotFound, version |-> VersionNotFound]

SceneFile == scenes_path \o <<<<"s", ".", "u", "n", "i", "t", "y">>>>
OtherFile == scenes_path \o <<<<"n", ".", "t", "x", "t">>>>

\* the files of a Scenes directory, by the option chosen
SceneFiles(option) ==
    CASE option = "one" -> [p \in {SceneFile} |-> BlockSeq(1)]
      [] option = "mixed" -> [p \in {SceneFile, OtherFile} |-> IF p = SceneFile THEN TabJson(1) ELSE Garbage(1)]
      [] option = "unserializable" -> [p \in {SceneFile} |-> DateText]
      [] OTHER -> <<>>

\* every directory on the way to the paths
Ancestors(paths) == {SubSeq(p, 1, k) : p \in paths, k \in 1..3} \ paths

\* the project directory holding the chosen fixed files and Scenes directory
ProjectFs(choice, scenes) ==
    LET fixed == {FixedPaths[c] : c \in {d \in DOMAIN choice : choice[d].present}}
        contentOf(p) == choice[CHOOSE c \in DOMAIN choice : FixedPaths[c] = p].content
        sceneFiles == SceneFiles(scenes)
        files == fixed \cup DOMAIN sceneFiles
        dirs == {ProjectRoot} \cup {q \in Ancestors(files) : Len(q) < 4}
                \cup (IF scenes = "absent" THEN {} ELSE {scenes_path, Parent(scenes_path)})
    IN  [p \in dirs \cup files |->
            IF p \in dirs THEN Entry("dir", NoContent)
            ELSE IF p \in fixed THEN Entry("file", contentOf(p))
            ELSE Entry("file", sceneFiles[p])]

AssetOptions == {Absent, Present(BlockSeq(2)), Present(TabJson(1)), Present(Garbage(2)), Present(DateText)}

FewAssetOptions == {Absent, Present(BlockSeq(2)), Present(DateText)}

PackageOptions == {Absent, Present(FlowJson(2)), Present(Garbage(1))}

VersionText == <<" ", "6", "0", "0", "0", ".", "0", ".", "1", "f", "1", "\n">>

VersionOptions == {Absent, Present(VersionText)}

SceneOptions == {"absent", "empty", "one", "mixed", "unserializable"}

NoTreeRun ==
    /\ exclude = {}
    /\ tree = NoTree
    /\ treePc = "idle"
    /\ ReadIdle
    /\ CountIdle

MainInit ==
    /\ \/ fs = <<>>
       \/ \E b \in AssetOptions, k \in PackageOptions, p \in FewAssetOptions,
             q \in FewAssetOptions, v \in VersionOptions, sc \in SceneOptions :
            fs = ProjectFs([build |-> b, packages |-> k, project |-> p, quality |-> q,
                            version |-> v], sc)
    /\ gitEnv \in [1..2 -> GitOutcomes]
    /\ now = 0
    /\ pc = "tree"
    /\ results = NoResults
    /\ error = NoError
    /\ reports = <<>>
    /\ written = <<>>
    /\ NoTreeRun

MainNext ==
    \/ GenerateTree
    \/ GetBuildSettings
    \/ GetPackageVersions
    \/ GetProjectSettings
    \/ GetQualitySettings
    \/ GetSceneHierarchies
    \/ GetUnityVersion
    \/ GetGitInfo
    \/ CountAssets
    \/ WriteReport

SpecMain == MainInit /\ [][MainNext]_vars

\* the file system with a file of the given content at path, its directories created
WithFile(fsys, path, content) ==
    LET dirs == {SubSeq(path, 1, k) : k \in 1..(Len(path) - 1)} \ DOMAIN fsys
    IN  [p \in DOMAIN fsys \cup dirs \cup {path} |->
            IF p = path THEN Entry("file", content)
            ELSE IF p \in dirs THEN Entry("dir", NoContent)
            ELSE fsys[p]]

SampleContents == {BlockSeq(2), FlowJson(2), Garbage(2), DateText, VersionText}

\* C7: a fixed-path collector whose path does not exist returns its placeholder (the
\* scene collector an empty mapping without the Scenes directory), and what every
\* other collector returned in the run is what it returns with that path present,
\* whatever the file holds.
C7_MissingPathIsLocal ==
    /\ \A c \in DOMAIN FixedPaths :
         ~exists(fs, FixedPaths[c]) =>
            /\ error.at # c
            /\ results[c].set => results[c].val = Placeholder[c]
            /\ \A content \in SampleContents : \A d \in Collectors \ {c} :
                 results[d].set =>
                    Collect(d, WithFile(fs, FixedPaths[c], content), gitEnv) = Ok(results[d].val)
    /\ ~exists(fs, scenes_path) =>
         /\ error.at # "scenes"
         /\ results["scenes"].set => results["scenes"].val = <<>>

\* a finished run in which the build settings are missing and the project settings and
\* the packages file, which exist, were read
C7_Witness ==
    /\ pc = "done"
    /\ ~exists(fs, build_settings_path) /\ ~exists(fs, scenes_path)
    /\ exists(fs, project_settings_path) /\ exists(fs, packages_lock_path)
    /\ results["build"].val = BuildNotFound
    /\ results["project"].val # ProjectNotFound
    /\ results["packages"].val # PackagesNotFound

\* the first of the two git commands to fail, "ok" when both succeed
GitFailure == IF gitEnv[1] # "ok" THEN gitEnv[1] ELSE gitEnv[2]

\* C8: when a git command fails for whatever reason, get_git_info returns the
\* placeholder, main does not end there, and the run goes on to count_assets.
C8_GitFailureContained ==
    (GitFailure # "ok" /\ (results["git"].set \/ error.at = "git")) =>
        /\ error.at # "git"
        /\ results["git"].val = GitNotAvailable
        /\ pc \in {"counts", "write", "done"}

(***************************************************************************)
(* The runs specification: main is run again and again in one working      *)
(* directory while the clock advances and the project changes.             *)
(***************************************************************************)
RunsInit ==
    /\ \E b \in {Absent, Present(BlockSeq(2))}, sc \in {"absent", "one"} :
         fs = ProjectFs([build |-> b, packages |-> Absent, project |-> Absent,
                         quality |-> Absent, version |-> Absent], sc)
    /\ gitEnv \in [1..2 -> {"ok", "nonzero"}]
    /\ now = 0
    /\ pc = "tree"
    /\ results = NoResults
    /\ error = NoError
    /\ reports = <<>>
    /\ written = <<>>
    /\ NoTreeRun

\* time passes
Tick ==
    /\ pc \in {"tree", "write", "done"}
    /\ now < MaxTicks
    /\ now' = now + 1
    /\ UNCHANGED <<fs, exclude, tree, treePc, readVars, countVars, gitEnv, pc, results, error,
                   reports, written>>

\* between two runs the project's version file is written or deleted
ChangeProject ==
    /\ pc = "done"
    /\ fs' = IF exists(fs, version_file)
             THEN [p \in DOMAIN fs \ {version_file} |-> fs[p]]
             ELSE WithFile(fs, version_file, VersionText)
    /\ UNCHANGED <<exclude, tree, treePc, readVars, countVars, mainVars>>

\* the script is started again
StartRun ==
    /\ pc = "done"
    /\ Len(written) < MaxRuns
    /\ pc' = "tree"
    /\ results' = NoResults
    /\ error' = NoError
    /\ UNCHANGED <<fs, exclude, tree, treePc, readVars, countVars, gitEnv, now, reports, written>>

RunsNext == MainNext \/ Tick \/ ChangeProject \/ StartRun

SpecRuns == RunsInit /\ [][RunsNext]_vars

\* C9: no run overwrites an earlier run's report: the runs write to different file
\* names, and every report written is still on disk with the content its run wrote.
C9_NeverOverwrites ==
    /\ \A i, j \in 1..Len(written) : i < j => written[i].name # written[j].name
    /\ \A i \in 1..Len(written) :
         /\ written[i].name \in DOMAIN reports
         /\ reports[written[i].name] = written[i].content

====
